---------------------------- MODULE Spec2Model ----------------------------
(***************************************************************************)
(* A model of the kaspa-graffiti wallet/query facade (src-ui services/api, *)
(* held in src/src-ui/server.cjs lines 165-501): the address codec         *)
(* (conv8to5, bech32Polymod, bech32Encode, kaspaAddressFromPublicKey), the *)
(* network-fallback backend (fetchBalanceFromApi, fetchUtxosFromApi) and   *)
(* the eleven facade operations with their native/fallback dispatch.       *)
(*                                                                         *)
(* JavaScript strings are sequences of one-character strings, byte arrays  *)
(* are sequences of 0..255, and JavaScript values that cross the gateway   *)
(* as JSON are tagged records (see "JavaScript values" below).             *)
(***************************************************************************)
EXTENDS Integers, Sequences, FiniteSets, TLC

VARIABLES
    isTauri,      \* const isTauri, decided when the module is loaded
    invoke,       \* const invoke: "fn" (window.__TAURI__.core.invoke) or "null"
    mockAddress,  \* let mockAddress, the module-level variable
    frames,       \* the facade calls in progress, one per caller of the host
    gateway,      \* per caller: the state of its request in flight to the gateway
    codec         \* the codec's input and output, for the codec specification

vars == <<isTauri, invoke, mockAddress, frames, gateway, codec>>

-----------------------------------------------------------------------------
(* Bounds of the model.                                                    *)

\* Longest key handed to kaspaAddressFromPublicKey in the codec specification.
MaxKeyLen == 35

\* Longest byte sequence handed to conv8to5 in the packing specification.
MaxPackLen == 64

\* Most symbols fed to bech32Polymod after the HRP in the checksum
\* specification.
MaxSymbols == 6

\* Most entries in one UTXO response of the gateway.
MaxEntries == 2

\* Largest amount of one UTXO entry, and largest balance the gateway reports.
MaxAmount == 2

-----------------------------------------------------------------------------
(* Integer helpers: JavaScript's shifts and masks on non-negative numbers. *)

RECURSIVE Pow2(_)
Pow2(n) == IF n = 0 THEN 1 ELSE 2 * Pow2(n - 1)

\* x << n
Shl(x, n) == x * Pow2(n)

\* x >> n (a shift by 31 or more leaves nothing of a number below 2^31)
Shr(x, n) == IF n >= 31 THEN 0 ELSE x \div Pow2(n)

RECURSIVE BitAnd(_, _)
BitAnd(x, y) ==
    IF x = 0 \/ y = 0 THEN 0
    ELSE 2 * BitAnd(x \div 2, y \div 2) + (IF x % 2 = 1 /\ y % 2 = 1 THEN 1 ELSE 0)

RECURSIVE BitOr(_, _)
BitOr(x, y) ==
    IF x = 0 THEN y
    ELSE IF y = 0 THEN x
    ELSE 2 * BitOr(x \div 2, y \div 2) + (IF x % 2 = 1 \/ y % 2 = 1 THEN 1 ELSE 0)

RECURSIVE BitXor(_, _)
BitXor(x, y) ==
    IF x = 0 THEN y
    ELSE IF y = 0 THEN x
    ELSE 2 * BitXor(x \div 2, y \div 2) + (IF x % 2 = y % 2 THEN 0 ELSE 1)

-----------------------------------------------------------------------------
(* Characters.                                                             *)

Lower == <<"a","b","c","d","e","f","g","h","i","j","k","l","m",
           "n","o","p","q","r","s","t","u","v","w","x","y","z">>

Digits == <<"0","1","2","3","4","5","6","7","8","9">>

\* The position of ch in the sequence s (0 when it is not there).
IndexIn(s, ch) ==
    IF \E i \in 1..Len(s) : s[i] = ch
    THEN CHOOSE i \in 1..Len(s) : s[i] = ch
    ELSE 0

\* String.prototype.charCodeAt(0) of a one-character string, for the
\* characters the model uses.
CharCode(ch) ==
    IF IndexIn(Lower, ch) > 0 THEN 96 + IndexIn(Lower, ch)
    ELSE IF IndexIn(Digits, ch) > 0 THEN 47 + IndexIn(Digits, ch)
    ELSE IF ch = ":" THEN 58
    ELSE IF ch = "-" THEN 45
    ELSE IF ch = "/" THEN 47
    ELSE IF ch = " " THEN 32
    ELSE 63

\* String.prototype.startsWith
StartsWith(s, p) == Len(s) >= Len(p) /\ SubSeq(s, 1, Len(p)) = p

-----------------------------------------------------------------------------
(* The address codec.                                                      *)

CHARSET == <<"q","p","z","r","y","9","x","8","g","f","2","t","v","d","w","0",
             "s","3","j","n","5","4","k","h","c","e","6","m","u","a","7","l">>

\* A bigint as two limbs: the value is hi * 2^20 + lo, with lo < 2^20.
LimbBits == 20

Limb == Pow2(LimbBits)

Big(hi, lo) == [hi |-> hi, lo |-> lo]

BigXor(a, b) == Big(BitXor(a.hi, b.hi), BitXor(a.lo, b.lo))

\* The five generator constants of bech32Polymod.
Gen0 == Big(626475, 822881)    \* 0x98f2bc8e61
Gen1 == Big(498550, 891362)    \* 0x79b76d99e2
Gen2 == Big(996325, 1029060)   \* 0xf33e5fb3c4
Gen3 == Big(713450, 778920)    \* 0xae2eabe2a8
Gen4 == Big(124148, 255088)    \* 0x1e4f43e470

\* A variant of the round that shifts the accumulator without masking it to
\* 35 bits first.
PolymodStepUnmasked(c, v) ==
    LET c0 == Shr(c.hi, 35 - LimbBits)
        slo == Shl(c.lo, 5)
        s == Big(Shl(c.hi, 5) + slo \div Limb, slo % Limb)
        c1 == Big(s.hi, BitXor(s.lo, v))
        c2 == IF BitAnd(c0, 1) # 0 THEN BigXor(c1, Gen0) ELSE c1
        c3 == IF BitAnd(c0, 2) # 0 THEN BigXor(c2, Gen1) ELSE c2
        c4 == IF BitAnd(c0, 4) # 0 THEN BigXor(c3, Gen2) ELSE c3
        c5 == IF BitAnd(c0, 8) # 0 THEN BigXor(c4, Gen3) ELSE c4
        c6 == IF BitAnd(c0, 16) # 0 THEN BigXor(c5, Gen4) ELSE c5
    IN c6

\* One round of the loop of bech32Polymod: c is the accumulator, v the symbol.
PolymodStep(c, v) ==
    LET c0 == Shr(c.hi, 35 - LimbBits)                  \* c >> 35n
        mhi == c.hi % Pow2(35 - LimbBits)               \* c & 0x07ffffffffn
        slo == Shl(c.lo, 5)                             \* ... << 5n
        s == Big(Shl(mhi, 5) + slo \div Limb, slo % Limb)
        c1 == Big(s.hi, BitXor(s.lo, v))                \* ^ BigInt(values[i])
        c2 == IF BitAnd(c0, 1) # 0 THEN BigXor(c1, Gen0) ELSE c1
        c3 == IF BitAnd(c0, 2) # 0 THEN BigXor(c2, Gen1) ELSE c2
        c4 == IF BitAnd(c0, 4) # 0 THEN BigXor(c3, Gen2) ELSE c3
        c5 == IF BitAnd(c0, 8) # 0 THEN BigXor(c4, Gen3) ELSE c4
        c6 == IF BitAnd(c0, 16) # 0 THEN BigXor(c5, Gen4) ELSE c5
    IN c6

\* return c ^ 1n
PolymodFinal(c) == Big(c.hi, BitXor(c.lo, 1))

\* The loop of bech32Polymod over values[lo..hi], left to right. The range is
\* halved so that the evaluation nests log-deep: the left half is run first
\* (the test on it evaluates it) and its accumulator is handed to the right.
RECURSIVE PolymodLoop(_, _, _, _)
PolymodLoop(c, values, lo, hi) ==
    IF lo > hi THEN c
    ELSE IF lo = hi THEN PolymodStep(c, values[lo])
    ELSE LET mid == (lo + hi) \div 2
             left == PolymodLoop(c, values, lo, mid)
         IN IF left.hi >= 0
            THEN PolymodLoop(left, values, mid + 1, hi)
            ELSE left

bech32Polymod(values) ==
    PolymodFinal(PolymodLoop(Big(0, 1), values, 1, Len(values)))

\* The inner while loop of conv8to5: st = [buff, bits, result].
RECURSIVE Conv8to5Drain(_)
Conv8to5Drain(st) ==
    IF st.bits >= 5
    THEN LET bits == st.bits - 5
         IN Conv8to5Drain([buff |-> BitAnd(st.buff, Shl(1, bits) - 1),
                            bits |-> bits,
                            result |-> Append(st.result, BitAnd(Shr(st.buff, bits), 31))])
    ELSE st

\* One round of the for loop of conv8to5.
Conv8to5Step(st, byte) ==
    Conv8to5Drain([buff |-> BitOr(Shl(st.buff, 8), byte),
                   bits |-> st.bits + 8,
                   result |-> st.result])

\* The for loop of conv8to5 over data[lo..hi], left to right (halved like
\* PolymodLoop).
RECURSIVE Conv8to5Loop(_, _, _, _)
Conv8to5Loop(st, data, lo, hi) ==
    IF lo > hi THEN st
    ELSE IF lo = hi THEN Conv8to5Step(st, data[lo])
    ELSE LET mid == (lo + hi) \div 2
             left == Conv8to5Loop(st, data, lo, mid)
         IN IF left.bits >= 0
            THEN Conv8to5Loop(left, data, mid + 1, hi)
            ELSE left

\* A variant of conv8to5 that drops the bits left over after the last whole
\* group.
conv8to5NoTail(data) ==
    Conv8to5Loop([buff |-> 0, bits |-> 0, result |-> <<>>], data, 1, Len(data)).result

conv8to5(data) ==
    LET st == Conv8to5Loop([buff |-> 0, bits |-> 0, result |-> <<>>], data, 1, Len(data))
    IN IF st.bits > 0
       THEN Append(st.result, BitAnd(Shl(st.buff, 5 - st.bits), 31))
       ELSE st.result

\* Number((checksum >> BigInt(i * 8)) & 0xFFn)
BigByte(c, i) ==
    IF 8 * i < LimbBits
    THEN (Shr(c.lo, 8 * i) + Shl(c.hi % 256, LimbBits - 8 * i)) % 256
    ELSE Shr(c.hi, 8 * i - LimbBits) % 256

\* The 8-byte big-endian form of the checksum: checksumBytes[7 - i].
ChecksumBytes(checksum) == [j \in 1..8 |-> BigByte(checksum, 8 - j)]

\* CHARSET[g] for every group g of a sequence.
Symbols(groups) == [i \in 1..Len(groups) |-> CHARSET[groups[i] + 1]]

\* A variant of bech32Encode whose checksum input lacks the 0 between the
\* HRP and the data.
bech32EncodeNoSeparator(hrp, data) ==
    LET hrp5 == [i \in 1..Len(hrp) |-> BitAnd(CharCode(hrp[i]), 31)]
        data5 == conv8to5(data)
        checksumInput == hrp5 \o data5 \o <<0, 0, 0, 0, 0, 0, 0, 0>>
        checksum == bech32Polymod(checksumInput)
        checksumBytes == ChecksumBytes(checksum)
        checksum5 == conv8to5(SubSeq(checksumBytes, 4, 8))
    IN hrp \o <<":">> \o Symbols(data5) \o Symbols(checksum5)

\* A variant of bech32Encode whose checksum does not cover the HRP.
bech32EncodeUnbound(hrp, data) ==
    LET data5 == conv8to5(data)
        checksumInput == <<0>> \o data5 \o <<0, 0, 0, 0, 0, 0, 0, 0>>
        checksum == bech32Polymod(checksumInput)
        checksumBytes == ChecksumBytes(checksum)
        checksum5 == conv8to5(SubSeq(checksumBytes, 4, 8))
    IN hrp \o <<":">> \o Symbols(data5) \o Symbols(checksum5)

bech32Encode(hrp, data) ==
    LET hrp5 == [i \in 1..Len(hrp) |-> BitAnd(CharCode(hrp[i]), 31)]
        data5 == conv8to5(data)
        checksumInput == hrp5 \o <<0>> \o data5 \o <<0, 0, 0, 0, 0, 0, 0, 0>>
        checksum == bech32Polymod(checksumInput)
        checksumBytes == ChecksumBytes(checksum)
        checksum5 == conv8to5(SubSeq(checksumBytes, 4, 8))
    IN hrp \o <<":">> \o Symbols(data5) \o Symbols(checksum5)

\* Outcomes of a call: a value returned (a promise fulfilled) or an error
\* thrown (a promise rejected).
Ok(v) == [t |-> "ok", v |-> v]

Throw(e) == [t |-> "throw", error |-> e]

\* new Error(`Invalid x-only pubkey length: ${n}, expected 32`)
InvalidLength(n) == [name |-> "Error", message |-> "Invalid x-only pubkey length", got |-> n]

NetMainnet == <<"m","a","i","n","n","e","t">>

NetTestnet10 == <<"t","e","s","t","n","e","t","-","1","0">>

NetTestnet11 == <<"t","e","s","t","n","e","t","-","1","1">>

NetSimnet == <<"s","i","m","n","e","t">>

NetDevnet == <<"d","e","v","n","e","t">>

HrpKaspa == <<"k","a","s","p","a">>

HrpKaspatest == <<"k","a","s","p","a","t","e","s","t">>

HrpKaspasim == <<"k","a","s","p","a","s","i","m">>

\* Uint8Array.prototype.slice(1)
SliceFrom1(bytes) == SubSeq(bytes, 2, Len(bytes))

\* A variant of the HRP selection that knows the tag testnet-10 only.
HrpOfExactTag(network) ==
    IF network = NetMainnet THEN HrpKaspa
    ELSE IF network = NetTestnet10 THEN HrpKaspatest
    ELSE HrpKaspasim

\* The HRP kaspaAddressFromPublicKey selects for a network tag.
HrpOf(network) ==
    IF network = NetMainnet THEN HrpKaspa
    ELSE IF StartsWith(network, <<"t","e","s","t","n","e","t">>) THEN HrpKaspatest
    ELSE HrpKaspasim

\* A variant of the encoder that rejects only keys that are too long: under
\* it a short key is encoded instead of refused.
kaspaAddressOfShortKey(publicKeyBytes, network) ==
    LET xonlyPubkey == SliceFrom1(publicKeyBytes)
        payload == <<0>> \o xonlyPubkey
    IN IF Len(xonlyPubkey) > 32
       THEN Throw(InvalidLength(Len(xonlyPubkey)))
       ELSE Ok(bech32Encode(HrpOf(network), payload))

kaspaAddressFromPublicKey(publicKeyBytes, network) ==
    LET xonlyPubkey == SliceFrom1(publicKeyBytes)
        payload == <<0>> \o xonlyPubkey
    IN IF Len(xonlyPubkey) # 32
       THEN Throw(InvalidLength(Len(xonlyPubkey)))
       ELSE Ok(bech32Encode(HrpOf(network), payload))

HexChars == <<"0","1","2","3","4","5","6","7","8","9","a","b","c","d","e","f">>

\* Array.from(bytes).map(b => b.toString(16).padStart(2, '0')).join('')
ToHex(bytes) ==
    [i \in 1..(2 * Len(bytes)) |->
        IF i % 2 = 1 THEN HexChars[(bytes[(i + 1) \div 2] \div 16) + 1]
        ELSE HexChars[(bytes[i \div 2] % 16) + 1]]

\* What the random source may deliver: byte i of a draw <<a, b>> is a*i + b.
RandomSeeds == {<<0, 0>>, <<17, 3>>}

\* crypto.getRandomValues(new Uint8Array(length)): the arrays it may fill.
generateRandomBytes(length) ==
    {[i \in 1..length |-> (seed[1] * i + seed[2]) % 256] : seed \in RandomSeeds}

\* More fillings of a byte array, for the codec on its own.
CodecSeeds == RandomSeeds \cup {<<85, 170>>, <<1, 255>>}

\* generateRandomHex(length): the strings it may build.
generateRandomHex(length) ==
    {[i \in 1..length |-> HexChars[((seed[1] * i + seed[2]) % 16) + 1]] : seed \in RandomSeeds}

\* A variant of generateKaspaAddress that leaves the first byte of the drawn
\* public key as the random source delivered it.
GenerateKaspaAddressRaw(privateKeyBytes, drawnPublicKeyBytes) ==
    LET address == kaspaAddressFromPublicKey(drawnPublicKeyBytes, NetTestnet10)
    IN IF address.t = "throw"
       THEN address
       ELSE Ok([privateKey |-> ToHex(privateKeyBytes),
                publicKey |-> ToHex(drawnPublicKeyBytes), address |-> address.v])

\* generateKaspaAddress on the draws privateKeyBytes and publicKeyBytes (the
\* latter before its first byte is overwritten): the outcome of the call.
GenerateKaspaAddressOn(privateKeyBytes, drawnPublicKeyBytes) ==
    LET privateKey == ToHex(privateKeyBytes)
        publicKeyBytes == [i \in 1..Len(drawnPublicKeyBytes) |->
                              IF i = 1 THEN 2 ELSE drawnPublicKeyBytes[i]]
        publicKey == ToHex(publicKeyBytes)
        address == kaspaAddressFromPublicKey(publicKeyBytes, NetTestnet10)
    IN IF address.t = "throw"
       THEN address
       ELSE Ok([privateKey |-> privateKey, publicKey |-> publicKey, address |-> address.v])

\* The outcomes generateKaspaAddress may have.
generateKaspaAddress ==
    {GenerateKaspaAddressOn(priv, pub) :
        priv \in generateRandomBytes(32), pub \in generateRandomBytes(33)}

-----------------------------------------------------------------------------
(* JavaScript values: what JSON.parse may deliver and what the facade      *)
(* returns, as records tagged with the value's type.                       *)

Undefined == [t |-> "undefined"]

Null == [t |-> "null"]

NaN == [t |-> "nan"]

Num(n) == [t |-> "number", n |-> n]

Str(s) == [t |-> "string", s |-> s]

Bool(b) == [t |-> "boolean", b |-> b]

Arr(elems) == [t |-> "array", a |-> elems]

Obj(fields) == [t |-> "object", o |-> fields]

\* A built-in method read as a property (Array.prototype.entries).
BuiltinFunction == [t |-> "function"]

\* The TypeError a property read of null or undefined, or a call of a
\* non-function, throws.
TypeError == [name |-> "TypeError"]

\* The SyntaxError of response.json() on a body that is no JSON.
SyntaxError == [name |-> "SyntaxError"]

\* The TypeError fetch rejects with when the transport fails.
NetworkError == [name |-> "TypeError", message |-> "Failed to fetch"]

\* The URIError of encodeURIComponent on a lone surrogate.
URIError == [name |-> "URIError"]

Nullish(x) == x.t \in {"undefined", "null"}

\* ToBoolean
Truthy(x) ==
    CASE x.t \in {"undefined", "null", "nan"} -> FALSE
      [] x.t = "number" -> x.n # 0
      [] x.t = "string" -> Len(x.s) > 0
      [] x.t = "boolean" -> x.b
      [] OTHER -> TRUE

\* a || b
Or(a, b) == IF Truthy(a) THEN a ELSE b

\* x.k for an x that is neither null nor undefined.
Get(x, k) ==
    CASE x.t = "object" -> IF k \in DOMAIN x.o THEN x.o[k] ELSE Undefined
      [] x.t = "array" -> IF k = "entries" THEN BuiltinFunction ELSE Undefined
      [] OTHER -> Undefined

\* x?.k
OptGet(x, k) == IF Nullish(x) THEN Undefined ELSE Get(x, k)

IsDigits(s) == \A i \in 1..Len(s) : IndexIn(Digits, s[i]) > 0

RECURSIVE DecimalValue(_)
DecimalValue(s) ==
    IF Len(s) = 0 THEN 0
    ELSE 10 * DecimalValue(SubSeq(s, 1, Len(s) - 1)) + (IndexIn(Digits, s[Len(s)]) - 1)

\* String.prototype.trim, for the blank the model uses
RECURSIVE TrimStart(_)
TrimStart(s) == IF Len(s) > 0 /\ s[1] = " " THEN TrimStart(Tail(s)) ELSE s

RECURSIVE TrimEnd(_)
TrimEnd(s) == IF Len(s) > 0 /\ s[Len(s)] = " " THEN TrimEnd(SubSeq(s, 1, Len(s) - 1)) ELSE s

Trim(s) == TrimEnd(TrimStart(s))

\* Number(string), for strings of decimal digits, blanks and other characters.
StringToNumber(s) ==
    IF IsDigits(Trim(s)) THEN Num(DecimalValue(Trim(s))) ELSE NaN

\* Number(x). An array converts through its string form: [] is "", [e] is
\* the string of e; longer arrays and arrays of arrays or objects give NaN.
ToNumber(x) ==
    CASE x.t = "number" -> x
      [] x.t = "null" -> Num(0)
      [] x.t = "boolean" -> Num(IF x.b THEN 1 ELSE 0)
      [] x.t = "string" -> StringToNumber(x.s)
      [] x.t = "array" ->
            IF Len(x.a) = 0 THEN Num(0)
            ELSE IF Len(x.a) > 1 THEN NaN
            ELSE IF Nullish(x.a[1]) THEN Num(0)
            ELSE IF x.a[1].t = "number" THEN x.a[1]
            ELSE IF x.a[1].t = "string" THEN StringToNumber(x.a[1].s)
            ELSE NaN
      [] OTHER -> NaN

\* a + b on two numbers
Plus(a, b) == IF a.t = "nan" \/ b.t = "nan" THEN NaN ELSE Num(a.n + b.n)

-----------------------------------------------------------------------------
(* The gateway: requests and responses.                                    *)

\* A code unit that is half of a surrogate pair, standing alone in a string.
LoneSurrogate == "\\uD800"

UpperHex == <<"0","1","2","3","4","5","6","7","8","9","A","B","C","D","E","F">>

\* The code of an ASCII character the model uses outside letters and digits.
AsciiCode(ch) ==
    CASE ch = " " -> 32
      [] ch = "#" -> 35
      [] ch = "%" -> 37
      [] ch = "&" -> 38
      [] ch = "/" -> 47
      [] ch = ":" -> 58
      [] ch = "=" -> 61
      [] ch = "?" -> 63
      [] OTHER -> CharCode(ch)

\* The characters encodeURIComponent leaves as they are (A-Z a-z 0-9 - _ . ! ~ * ' ( )).
Unreserved(ch) ==
    \/ IndexIn(Lower, ch) > 0
    \/ IndexIn(Digits, ch) > 0
    \/ ch \in {"-", "_", ".", "!", "~", "*", "'", "(", ")"}

\* encodeURIComponent of one ASCII character
EncodeChar(ch) ==
    IF Unreserved(ch) THEN <<ch>>
    ELSE <<"%", UpperHex[(AsciiCode(ch) \div 16) + 1], UpperHex[(AsciiCode(ch) % 16) + 1]>>

RECURSIVE EncodeRange(_, _, _)
EncodeRange(s, lo, hi) ==
    IF lo > hi THEN <<>>
    ELSE IF lo = hi THEN EncodeChar(s[lo])
    ELSE EncodeRange(s, lo, (lo + hi) \div 2) \o EncodeRange(s, ((lo + hi) \div 2) + 1, hi)

\* encodeURIComponent(s): a URIError on a lone surrogate
encodeURIComponent(s) ==
    IF \E i \in 1..Len(s) : s[i] = LoneSurrogate
    THEN Throw(URIError)
    ELSE Ok(EncodeRange(s, 1, Len(s)))

\* const PUBLIC_API, in a page (the local CORS proxy) and in a Tauri webview.
ProxyApi == "${window.location.origin}/api"

DirectApi == "https://api-tn10.kaspa.org"

PUBLIC_API == IF ~isTauri THEN ProxyApi ELSE DirectApi

PathAddresses == <<"/","a","d","d","r","e","s","s","e","s","/">>

PathBalance == <<"/","b","a","l","a","n","c","e">>

PathUtxos == <<"/","u","t","x","o","s">>

\* fetch(url) with no init: a GET of the URL with no body. The URL is kept as
\* its base (PUBLIC_API) and the path the template string appends to it.
FetchRequest(base, path) ==
    [method |-> "GET", base |-> base, path |-> path, body |-> Undefined]

\* `${PUBLIC_API}/addresses/${encodedAddress}/balance`
BalanceRequest(encodedAddress) ==
    FetchRequest(PUBLIC_API, PathAddresses \o encodedAddress \o PathBalance)

\* `${PUBLIC_API}/addresses/${encodedAddress}/utxos`
UtxosRequest(encodedAddress) ==
    FetchRequest(PUBLIC_API, PathAddresses \o encodedAddress \o PathUtxos)

\* The fetch promise rejected: the transport failed.
Reject == [kind |-> "reject"]

\* A response with a status and a body that parses as JSON to json.
Http(status, json) == [kind |-> "http", status |-> status, body |-> [parse |-> "ok", json |-> json]]

\* A response with a status and a body that is no JSON.
HttpText(status) == [kind |-> "http", status |-> status, body |-> [parse |-> "fail"]]

\* Response.ok
ResponseOk(r) == r.status \in 200..299

\* await response.json()
ResponseJson(r) == IF r.body.parse = "fail" THEN Throw(SyntaxError) ELSE Ok(r.body.json)

-----------------------------------------------------------------------------
(* The network-fallback backend: what fetchBalanceFromApi and              *)
(* fetchUtxosFromApi compute from a parsed body.                           *)

\* { balance, address }
BalanceInfo(balance, address) == Obj([balance |-> balance, address |-> Str(address)])

\* Number(data.balance || 0)
BalanceOfData(data) ==
    IF Nullish(data) THEN Throw(TypeError)
    ELSE Ok(ToNumber(Or(Get(data, "balance"), Num(0))))

\* Number(entry.utxo_entry?.amount || 0), for an entry that is not null
EntryAmountForBalance(entry) ==
    ToNumber(Or(OptGet(Get(entry, "utxo_entry"), "amount"), Num(0)))

\* entries.reduce((sum, entry) => sum + Number(...), 0) over entries[1..n]
RECURSIVE ReduceBalance(_, _)
ReduceBalance(entries, n) ==
    IF n = 0 THEN Num(0)
    ELSE Plus(ReduceBalance(entries, n - 1), EntryAmountForBalance(entries[n]))

\* const entries = data.entries || []; entries.reduce(...)
TotalBalanceOfData(data) ==
    IF Nullish(data) THEN Throw(TypeError)
    ELSE LET entries == Or(Get(data, "entries"), Arr(<<>>))
         IN IF entries.t # "array" THEN Throw(TypeError)
            ELSE IF \E i \in 1..Len(entries.a) : Nullish(entries.a[i]) THEN Throw(TypeError)
            ELSE Ok(ReduceBalance(entries.a, Len(entries.a)))

\* A variant of the entry mapping that reads the camelCase names only.
UtxoInfoOfCamelOnly(entry) ==
    LET outpoint == Get(entry, "outpoint")
        utxoEntry == Get(entry, "utxoEntry")
    IN Obj([txid |-> Or(OptGet(outpoint, "transactionId"), Str(<<>>)),
            vout |-> Or(OptGet(outpoint, "index"), Num(0)),
            amount |-> ToNumber(Or(OptGet(utxoEntry, "amount"), Num(0))),
            script_pubkey |->
                Or(OptGet(OptGet(utxoEntry, "scriptPublicKey"), "scriptPublicKey"), Str(<<>>))])

\* The record fetchUtxosFromApi maps an entry to, for an entry that is not null.
UtxoInfoOf(entry) ==
    LET outpoint == Get(entry, "outpoint")
        utxoEntry == Get(entry, "utxoEntry")
        utxo_entry == Get(entry, "utxo_entry")
    IN Obj([txid |-> Or(Or(OptGet(outpoint, "transactionId"),
                           OptGet(outpoint, "transaction_id")), Str(<<>>)),
            vout |-> Or(OptGet(outpoint, "index"), Num(0)),
            amount |-> ToNumber(Or(Or(OptGet(utxoEntry, "amount"),
                                      OptGet(utxo_entry, "amount")), Num(0))),
            script_pubkey |->
                Or(Or(OptGet(OptGet(utxoEntry, "scriptPublicKey"), "scriptPublicKey"),
                      OptGet(OptGet(utxo_entry, "script_public_key"), "script")), Str(<<>>))])

\* const entries = Array.isArray(data) ? data : (data.entries || []);
\* return entries.map(...)
UtxosOfData(data) ==
    IF Nullish(data) THEN Throw(TypeError)
    ELSE LET entries == IF data.t = "array" THEN data
                        ELSE Or(Get(data, "entries"), Arr(<<>>))
         IN IF entries.t # "array" THEN Throw(TypeError)
            ELSE IF \E i \in 1..Len(entries.a) : Nullish(entries.a[i]) THEN Throw(TypeError)
            ELSE Ok(Arr([i \in 1..Len(entries.a) |-> UtxoInfoOf(entries.a[i])]))

-----------------------------------------------------------------------------
(* The facade: its calls in progress and its operations.                   *)

\* The callers of the host that may each have one facade call in progress.
Callers == {"c1", "c2"}

\* The promise of a call not yet settled.
Pending == [t |-> "pending"]

NoArgs == [none |-> TRUE]

\* A caller with no call in progress.
IdleFrame ==
    [op |-> "none", pc |-> "idle", args |-> NoArgs, local |-> Undefined,
     requests |-> <<>>, responses |-> <<>>, invokes |-> <<>>, wrote |-> FALSE,
     outcome |-> Pending]

\* A call of op with args, entered: requests, responses and invokes record
\* what the call sent to the gateway, got from it, and passed to the native
\* backend; wrote records whether it assigned mockAddress.
Enter(op, args) == [IdleFrame EXCEPT !.op = op, !.pc = "start", !.args = args]

\* The call returns v or throws e: its promise settles.
Settle(f, outcome) == [f EXCEPT !.pc = "done", !.outcome = outcome]

\* A variant of the backend check that always takes the local branch.
FallbackAlways == TRUE

\* if (!isTauri || !invoke)
Fallback == ~isTauri \/ invoke = "null"

\* return await invoke(cmd, payload): the call waits for the native backend.
NativeCall(f, cmd, payload) ==
    [f EXCEPT !.pc = "native", !.invokes = Append(@, [cmd |-> cmd, payload |-> payload])]

\* What the native backend may answer: a result or a failure.
NativeOutcomes == {Ok([t |-> "native", result |-> "ok"]), Throw([name |-> "NativeFailure"])}

TxtKaspaPrefixes == {<<"k","a","s","p","a",":">>, <<"k","a","s","p","a","t","e","s","t",":">>, <<"K","a","s","p","a",":">>, <<"K","a","s","p","a","t","e","s","t",":">>}

TxtPending == <<"k","a","s","p","a","t","e","s","t",":","p","e","n","d","i","n","g">>

\* A variant of the transaction id prefix that marks nothing.
TxtUnmarked == <<"t","x","_","i","d">>

TxtMock == <<"m","o","c","k","_">>

TxtHello == <<"H","e","l","l","o",","," ">>

TxtBrowserMode == <<"!"," ","(","b","r","o","w","s","e","r"," ","m","o","d","e"," ","-"," ","R","E","S","T"," ","A","P","I"," ","f","o","r"," ","t","e","s","t","n","e","t","-","1","0",")">>

ZeroKey == [i \in 1..64 |-> "0"]

\* privateKey.replace(/^(kaspa:|kaspatest:|Kaspa:|Kaspatest:)/g, '').trim()
CleanKey(privateKey) ==
    LET stripped ==
            IF \E p \in TxtKaspaPrefixes : StartsWith(privateKey, p)
            THEN LET p == CHOOSE q \in TxtKaspaPrefixes : StartsWith(privateKey, q)
                 IN SubSeq(privateKey, Len(p) + 1, Len(privateKey))
            ELSE privateKey
    IN Trim(stripped)

\* The WalletInfo walletGenerate and walletLoad build in fallback mode.
WalletInfo(privateKey, publicKey, address) ==
    Obj([private_key |-> Str(privateKey), public_key |-> Str(publicKey),
         address |-> Str(address), network |-> Str(NetTestnet10)])

\* walletGenerate(), up to its await: the address is generated (fallback) or
\* the native backend is invoked.
WalletGenerate(c) ==
    /\ frames[c].pc = "idle"
    /\ IF Fallback
       THEN \E g \in generateKaspaAddress :
               frames' = [frames EXCEPT ![c] =
                   [Enter("walletGenerate", NoArgs) EXCEPT !.pc = "generated", !.local = g]]
       ELSE frames' = [frames EXCEPT ![c] =
                NativeCall(Enter("walletGenerate", NoArgs), "wallet_generate", Undefined)]
    /\ UNCHANGED <<isTauri, invoke, mockAddress, gateway, codec>>

\* walletGenerate() after await generateKaspaAddress(): a rejection passes to
\* the caller; otherwise mockAddress is assigned and the record returned.
WalletGenerateResume(c) ==
    /\ frames[c].pc = "generated"
    /\ frames[c].op = "walletGenerate"
    /\ LET g == frames[c].local
       IN IF g.t = "throw"
          THEN /\ frames' = [frames EXCEPT ![c] = Settle(@, g)]
               /\ UNCHANGED mockAddress
          ELSE /\ mockAddress' = g.v.address
               /\ frames' = [frames EXCEPT ![c] =
                      Settle([@ EXCEPT !.wrote = TRUE],
                             Ok(WalletInfo(g.v.privateKey, g.v.publicKey, g.v.address)))]
    /\ UNCHANGED <<isTauri, invoke, gateway, codec>>

\* walletLoad(privateKey), up to its await.
WalletLoad(c, privateKey) ==
    /\ frames[c].pc = "idle"
    /\ LET f == Enter("walletLoad", [privateKey |-> privateKey])
       IN IF Fallback
          THEN \E g \in generateKaspaAddress :
                  frames' = [frames EXCEPT ![c] =
                      [f EXCEPT !.pc = "generated",
                                !.local = [cleanKey |-> CleanKey(privateKey), generated |-> g]]]
          ELSE frames' = [frames EXCEPT ![c] =
                   NativeCall(f, "wallet_load", [privateKey |-> privateKey])]
    /\ UNCHANGED <<isTauri, invoke, mockAddress, gateway, codec>>

\* walletLoad(privateKey) after await generateKaspaAddress().
WalletLoadResume(c) ==
    /\ frames[c].pc = "generated"
    /\ frames[c].op = "walletLoad"
    /\ LET g == frames[c].local.generated
       IN IF g.t = "throw"
          THEN /\ frames' = [frames EXCEPT ![c] = Settle(@, g)]
               /\ UNCHANGED mockAddress
          ELSE /\ mockAddress' = g.v.address
               /\ frames' = [frames EXCEPT ![c] =
                      Settle([@ EXCEPT !.wrote = TRUE],
                             Ok(WalletInfo(frames[c].local.cleanKey, g.v.publicKey, g.v.address)))]
    /\ UNCHANGED <<isTauri, invoke, gateway, codec>>

\* The fallback check of addressValidate.
ValidAddress(address) ==
    /\ \/ StartsWith(address, HrpKaspa \o <<":">>)
       \/ StartsWith(address, HrpKaspatest \o <<":">>)
    /\ Len(address) >= 60

\* addressValidate(address)
AddressValidate(c, address) ==
    /\ frames[c].pc = "idle"
    /\ LET f == Enter("addressValidate", [address |-> address])
       IN frames' = [frames EXCEPT ![c] =
              IF Fallback
              THEN Settle(f, Ok(Bool(ValidAddress(address))))
              ELSE NativeCall(f, "address_validate", [address |-> address])]
    /\ UNCHANGED <<isTauri, invoke, mockAddress, gateway, codec>>

\* A variant of fetchBalanceFromApi without its try/catch: what is thrown
\* inside reaches the caller.
BalanceCatchRethrows(outcome, address) == outcome

\* A variant of fetchUtxosFromApi without its try/catch.
UtxosCatchRethrows(outcome) == outcome

\* The catch of fetchBalanceFromApi: whatever is thrown inside the try
\* becomes a zero balance.
BalanceCatch(outcome, address) ==
    IF outcome.t = "throw" THEN Ok(BalanceInfo(Num(0), address)) ELSE outcome

\* The catch of fetchUtxosFromApi: whatever is thrown inside the try becomes
\* the empty array.
UtxosCatch(outcome) ==
    IF outcome.t = "throw" THEN Ok(Arr(<<>>)) ELSE outcome

\* fetchBalanceFromApi once the primary response is ok:
\* const data = await response.json(); return { balance: Number(data.balance || 0), address }
BalanceFromPrimary(resp, address) ==
    LET data == ResponseJson(resp)
        balance == BalanceOfData(data.v)
    IN IF data.t = "throw" THEN data
       ELSE IF balance.t = "throw" THEN balance
       ELSE Ok(BalanceInfo(balance.v, address))

\* fetchBalanceFromApi once the response to the UTXO request is there.
BalanceFromUtxos(resp, address) ==
    IF ResponseOk(resp)
    THEN LET data == ResponseJson(resp)
             totalBalance == TotalBalanceOfData(data.v)
         IN IF data.t = "throw" THEN data
            ELSE IF totalBalance.t = "throw" THEN totalBalance
            ELSE Ok(BalanceInfo(totalBalance.v, address))
    ELSE Ok(BalanceInfo(Num(0), address))

\* fetchUtxosFromApi once the response is there.
UtxosFromResponse(resp) ==
    IF ResponseOk(resp)
    THEN LET data == ResponseJson(resp)
         IN IF data.t = "throw" THEN data ELSE UtxosOfData(data.v)
    ELSE Ok(Arr(<<>>))

\* balanceGet(address, rpcUrl), up to its first await: in fallback mode
\* fetchBalanceFromApi encodes the address and sends the primary request.
BalanceGet(c, address, rpcUrl) ==
    /\ frames[c].pc = "idle"
    /\ LET f == Enter("balanceGet", [address |-> address, rpcUrl |-> rpcUrl])
           encodedAddress == encodeURIComponent(address)
       IN IF Fallback
          THEN IF encodedAddress.t = "throw"
               THEN /\ frames' = [frames EXCEPT ![c] =
                           Settle(f, BalanceCatch(encodedAddress, address))]
                    /\ UNCHANGED gateway
               ELSE /\ frames' = [frames EXCEPT ![c] =
                           [f EXCEPT !.pc = "primary", !.local = encodedAddress.v,
                                     !.requests = <<BalanceRequest(encodedAddress.v)>>]]
                    /\ gateway' = [gateway EXCEPT ![c] = "pending"]
          ELSE /\ frames' = [frames EXCEPT ![c] =
                      NativeCall(f, "balance_get", [address |-> address, rpcUrl |-> rpcUrl])]
               /\ UNCHANGED gateway
    /\ UNCHANGED <<isTauri, invoke, mockAddress, codec>>

\* The primary request of fetchBalanceFromApi settles with resp: a rejected
\* fetch goes to the catch, an ok response is read, any other response
\* sends the UTXO request.
BalancePrimaryResponds(c, resp) ==
    /\ frames[c].pc = "primary"
    /\ gateway[c] = "pending"
    /\ LET f == [frames[c] EXCEPT !.responses = Append(@, resp)]
           address == f.args.address
       IN IF resp.kind = "reject"
          THEN /\ frames' = [frames EXCEPT ![c] =
                      Settle(f, BalanceCatch(Throw(NetworkError), address))]
               /\ gateway' = [gateway EXCEPT ![c] = "idle"]
          ELSE IF ResponseOk(resp)
          THEN /\ frames' = [frames EXCEPT ![c] =
                      Settle(f, BalanceCatch(BalanceFromPrimary(resp, address), address))]
               /\ gateway' = [gateway EXCEPT ![c] = "idle"]
          ELSE /\ frames' = [frames EXCEPT ![c] =
                      [f EXCEPT !.pc = "utxos",
                                !.requests = Append(@, UtxosRequest(f.local))]]
               /\ UNCHANGED gateway
    /\ UNCHANGED <<isTauri, invoke, mockAddress, codec>>

\* The UTXO request of fetchBalanceFromApi settles with resp.
BalanceUtxosResponds(c, resp) ==
    /\ frames[c].pc = "utxos"
    /\ frames[c].op = "balanceGet"
    /\ gateway[c] = "pending"
    /\ LET f == [frames[c] EXCEPT !.responses = Append(@, resp)]
           address == f.args.address
           outcome == IF resp.kind = "reject" THEN Throw(NetworkError)
                      ELSE BalanceFromUtxos(resp, address)
       IN frames' = [frames EXCEPT ![c] = Settle(f, BalanceCatch(outcome, address))]
    /\ gateway' = [gateway EXCEPT ![c] = "idle"]
    /\ UNCHANGED <<isTauri, invoke, mockAddress, codec>>

\* utxosGet(address, rpcUrl), up to its first await.
UtxosGet(c, address, rpcUrl) ==
    /\ frames[c].pc = "idle"
    /\ LET f == Enter("utxosGet", [address |-> address, rpcUrl |-> rpcUrl])
           encodedAddress == encodeURIComponent(address)
       IN IF Fallback
          THEN IF encodedAddress.t = "throw"
               THEN /\ frames' = [frames EXCEPT ![c] = Settle(f, UtxosCatch(encodedAddress))]
                    /\ UNCHANGED gateway
               ELSE /\ frames' = [frames EXCEPT ![c] =
                           [f EXCEPT !.pc = "utxos", !.local = encodedAddress.v,
                                     !.requests = <<UtxosRequest(encodedAddress.v)>>]]
                    /\ gateway' = [gateway EXCEPT ![c] = "pending"]
          ELSE /\ frames' = [frames EXCEPT ![c] =
                      NativeCall(f, "utxos_get", [address |-> address, rpcUrl |-> rpcUrl])]
               /\ UNCHANGED gateway
    /\ UNCHANGED <<isTauri, invoke, mockAddress, codec>>

\* The request of fetchUtxosFromApi settles with resp.
UtxosResponds(c, resp) ==
    /\ frames[c].pc = "utxos"
    /\ frames[c].op = "utxosGet"
    /\ gateway[c] = "pending"
    /\ LET f == [frames[c] EXCEPT !.responses = Append(@, resp)]
           outcome == IF resp.kind = "reject" THEN Throw(NetworkError)
                      ELSE UtxosFromResponse(resp)
       IN frames' = [frames EXCEPT ![c] = Settle(f, UtxosCatch(outcome))]
    /\ gateway' = [gateway EXCEPT ![c] = "idle"]
    /\ UNCHANGED <<isTauri, invoke, mockAddress, codec>>

\* The gateway never answers the request in flight: fetch is called with no
\* AbortSignal and no timer, so nothing in the facade ends the wait.
GatewayNeverAnswers(c) ==
    /\ gateway[c] = "pending"
    /\ gateway' = [gateway EXCEPT ![c] = "silent"]
    /\ UNCHANGED <<isTauri, invoke, mockAddress, frames, codec>>

\* graffitiSend(privateKey, message, mimetype, rpcUrl, feeRate)
GraffitiSend(c, privateKey, message, mimetype, rpcUrl, feeRate) ==
    /\ frames[c].pc = "idle"
    /\ LET args == [privateKey |-> privateKey, message |-> message, mimetype |-> mimetype,
                    rpcUrl |-> rpcUrl, feeRate |-> feeRate]
           f == Enter("graffitiSend", args)
       IN IF Fallback
          THEN \E hex \in generateRandomHex(16) :
                  frames' = [frames EXCEPT ![c] =
                      Settle(f, Ok(Obj([txid |-> Str(TxtMock \o hex), fee |-> Num(1000),
                                        change |-> Num(99000), address |-> Str(mockAddress)])))]
          ELSE frames' = [frames EXCEPT ![c] = NativeCall(f, "graffiti_send", args)]
    /\ UNCHANGED <<isTauri, invoke, mockAddress, gateway, codec>>

\* greet(name)
Greet(c, name) ==
    /\ frames[c].pc = "idle"
    /\ LET f == Enter("greet", [name |-> name])
       IN frames' = [frames EXCEPT ![c] =
              IF Fallback
              THEN Settle(f, Ok(Str(TxtHello \o name \o TxtBrowserMode)))
              ELSE NativeCall(f, "greet", [name |-> name])]
    /\ UNCHANGED <<isTauri, invoke, mockAddress, gateway, codec>>

\* The HDWalletInfo of fallback mode.
HDWalletInfo(seed) ==
    Obj([seed |-> Str(seed), address |-> Str(TxtPending), network |-> Str(NetTestnet10)])

\* walletHdGenerate()
WalletHdGenerate(c) ==
    /\ frames[c].pc = "idle"
    /\ LET f == Enter("walletHdGenerate", NoArgs)
       IN IF Fallback
          THEN \E seedBytes \in generateRandomBytes(32) :
                  frames' = [frames EXCEPT ![c] = Settle(f, Ok(HDWalletInfo(ToHex(seedBytes))))]
          ELSE frames' = [frames EXCEPT ![c] = NativeCall(f, "wallet_hd_generate", Undefined)]
    /\ UNCHANGED <<isTauri, invoke, mockAddress, gateway, codec>>

\* walletHdLoad(seed)
WalletHdLoad(c, seed) ==
    /\ frames[c].pc = "idle"
    /\ LET f == Enter("walletHdLoad", [seed |-> seed])
       IN frames' = [frames EXCEPT ![c] =
              IF Fallback
              THEN Settle(f, Ok(HDWalletInfo(seed)))
              ELSE NativeCall(f, "wallet_hd_load", [seed |-> seed])]
    /\ UNCHANGED <<isTauri, invoke, mockAddress, gateway, codec>>

\* deriveAddress(seed, index, isChange)
DeriveAddress(c, seed, index, isChange) ==
    /\ frames[c].pc = "idle"
    /\ LET f == Enter("deriveAddress", [seed |-> seed, index |-> index, isChange |-> isChange])
       IN frames' = [frames EXCEPT ![c] =
              IF Fallback
              THEN Settle(f, Ok(Obj([address |-> Str(TxtPending), index |-> Num(index),
                                     is_change |-> Or(isChange, Bool(FALSE)),
                                     private_key |-> Str(ZeroKey),
                                     public_key |-> Str(ZeroKey)])))
              ELSE NativeCall(f, "derive_address",
                              [seed |-> seed, index |-> index, change |-> isChange])]
    /\ UNCHANGED <<isTauri, invoke, mockAddress, gateway, codec>>

\* A variant of deriveMany that asks the gateway about the key it was given.
DeriveManyViaGateway(c, privateKey, count) ==
    /\ frames[c].pc = "idle"
    /\ LET f == Enter("deriveMany", [privateKey |-> privateKey, count |-> count])
       IN frames' = [frames EXCEPT ![c] =
              IF Fallback
              THEN Settle([f EXCEPT !.requests = <<UtxosRequest(privateKey)>>], Ok(Arr(<<>>)))
              ELSE NativeCall(f, "derive_many", [privateKey |-> privateKey, count |-> count])]
    /\ UNCHANGED <<isTauri, invoke, mockAddress, gateway, codec>>

\* deriveMany(privateKey, count)
DeriveMany(c, privateKey, count) ==
    /\ frames[c].pc = "idle"
    /\ LET f == Enter("deriveMany", [privateKey |-> privateKey, count |-> count])
       IN frames' = [frames EXCEPT ![c] =
              IF Fallback
              THEN Settle(f, Ok(Arr(<<>>)))
              ELSE NativeCall(f, "derive_many", [privateKey |-> privateKey, count |-> count])]
    /\ UNCHANGED <<isTauri, invoke, mockAddress, gateway, codec>>

\* The native backend answers an invoke: return await invoke(...) hands its
\* result, or its failure, to the caller.
NativeResponds(c) ==
    /\ frames[c].pc = "native"
    /\ \E answer \in NativeOutcomes :
          frames' = [frames EXCEPT ![c] =
              Settle([@ EXCEPT !.responses = Append(@, [kind |-> "native", answer |-> answer])],
                     answer)]
    /\ UNCHANGED <<isTauri, invoke, mockAddress, gateway, codec>>

\* The caller takes the settled promise; it may call again.
Return(c) ==
    /\ frames[c].pc = "done"
    /\ frames' = [frames EXCEPT ![c] = IdleFrame]
    /\ UNCHANGED <<isTauri, invoke, mockAddress, gateway, codec>>

-----------------------------------------------------------------------------
(* The environment: what the host passes and what the gateway answers.     *)

\* All sequences over S of length at most n.
RECURSIVE SeqsUpTo(_, _)
SeqsUpTo(S, n) ==
    IF n = 0 THEN {<<>>}
    ELSE LET shorter == SeqsUpTo(S, n - 1)
         IN shorter \cup {Append(q, x) : q \in {r \in shorter : Len(r) = n - 1}, x \in S}

\* The amount of an entry as the gateway may write it: a JSON number or a
\* string of digits.
WireAmounts ==
    {Num(n) : n \in 0..MaxAmount} \cup {Str(<<Digits[n + 1]>>) : n \in 1..MaxAmount}

\* The output the gateway lists at position i: transaction id, output index,
\* script.
OutputAt(i) ==
    [txid |-> <<"t", "x", Digits[(i % 10) + 1]>>, index |-> i - 1,
     script |-> IF i % 2 = 1 THEN <<"2","0","a","c">> ELSE <<"a","a">>]

\* The UTXO entry at position i with an amount, before it is written as JSON.
EntryAt(i, amount) ==
    [txid |-> OutputAt(i).txid, index |-> OutputAt(i).index,
     script |-> OutputAt(i).script, amount |-> amount]

\* An entry written with the camelCase field names.
CamelEntry(e) ==
    Obj([outpoint |-> Obj([transactionId |-> Str(e.txid), index |-> Num(e.index)]),
         utxoEntry |-> Obj([amount |-> e.amount,
                            scriptPublicKey |-> Obj([scriptPublicKey |-> Str(e.script)])])])

\* An entry written with the snake_case field names.
SnakeEntry(e) ==
    Obj([outpoint |-> Obj([transaction_id |-> Str(e.txid), index |-> Num(e.index)]),
         utxo_entry |-> Obj([amount |-> e.amount,
                             script_public_key |-> Obj([script |-> Str(e.script)])])])

\* A UTXO response body: the entries es in a naming convention ("camel",
\* "snake") and a shape ("entries": {entries: [...]}, "bare": [...]).
UtxoBody(es, convention, shape) ==
    LET items == [i \in 1..Len(es) |->
                    IF convention = "camel" THEN CamelEntry(es[i]) ELSE SnakeEntry(es[i])]
    IN IF shape = "entries" THEN Obj([entries |-> Arr(items)]) ELSE Arr(items)

Conventions == {"camel", "snake"}

Shapes == {"entries", "bare"}

\* The lists of at most MaxEntries entries the gateway may hold.
EntryLists ==
    {[i \in 1..Len(amounts) |-> EntryAt(i, amounts[i])] :
        amounts \in SeqsUpTo(WireAmounts, MaxEntries)}

\* The valid UTXO bodies of the gateway.
UtxoBodies ==
    {UtxoBody(es, convention, shape) :
        es \in EntryLists, convention \in Conventions, shape \in Shapes}

\* Bodies that are JSON but in neither known shape.
MalformedBodies ==
    {Null,
     Num(MaxAmount),
     Obj([message |-> Str(<<"n","o">>)]),
     Obj([entries |-> Num(MaxAmount)]),
     Obj([entries |-> Str(<<"n","o">>)]),
     Obj([entries |-> Arr(<<Null>>)]),
     Arr(<<Null>>),
     Arr(<<Obj([address |-> Str(<<"q">>)])>>),
     Obj([entries |-> Arr(<<Obj([address |-> Str(<<"q">>)])>>)])}

\* The bodies of the balance endpoint.
BalanceBodies ==
    {Obj([balance |-> Num(n)]) : n \in 0..MaxAmount}
    \cup {Obj([balance |-> Str(<<Digits[n + 1]>>)]) : n \in 1..MaxAmount}
    \cup {Obj([balance |-> Str(<<"n","o">>)]), Obj([balance |-> Null]),
          Obj([message |-> Str(<<"n","o">>)]), Null}

\* HTTP statuses of the gateway: one that is ok and some that are not.
FailStatuses == {404, 500}

\* What the gateway may answer to the balance request.
PrimaryResponses ==
    {Reject, HttpText(200)}
    \cup {HttpText(st) : st \in FailStatuses}
    \cup {Http(200, body) : body \in BalanceBodies}
    \cup {Http(500, Obj([balance |-> Num(MaxAmount)]))}

\* What the gateway may answer to the UTXO request.
UtxoResponses ==
    {Reject, HttpText(200)}
    \cup {HttpText(st) : st \in FailStatuses}
    \cup {Http(200, body) : body \in UtxoBodies \cup MalformedBodies}
    \cup {Http(500, UtxoBody(<<EntryAt(1, Num(MaxAmount))>>,
                             "snake", "entries"))}

\* The addresses the host asks the gateway about: one of the address
\* format, one with characters reserved in a URL, one that cannot be encoded.
GatewayAddresses ==
    {<<"k","a","s","p","a","t","e","s","t",":","q","q">>,
     <<"a","/","b","?","c","=","d">>,
     <<"q", LoneSurrogate>>}

\* The host's inputs in the facade specification.
HostAddresses == {<<"k","a","s","p","a","t","e","s","t",":","q","q">>, <<"a","/","b","?","c","=","d">>}

HostKeys == {<<"a","b">>, <<"k","a","s","p","a",":","c","d">>}

HostSeeds == {<<"0","1">>}

HostMessages == {<<"h","i">>}

HostNames == {<<"b","o","b">>}

HostIndexes == {0, 1}

HostChangeFlags == {Undefined, Bool(TRUE)}

HostCounts == {2}

\* The gateway's answers in the facade specification.
HostPrimaryResponses == {Reject, HttpText(500), Http(200, Obj([balance |-> Num(1)]))}

HostUtxoResponses ==
    {Reject, HttpText(500),
     Http(200, UtxoBody(<<EntryAt(1, Num(1))>>,
                        "snake", "entries"))}

-----------------------------------------------------------------------------
(* The facade specification: two callers, every operation, either backend. *)

NoCodec == [phase |-> "unused"]

Init ==
    /\ isTauri \in BOOLEAN
    /\ invoke = IF isTauri THEN "fn" ELSE "null"
    /\ mockAddress = <<>>
    /\ frames = [c \in Callers |-> IdleFrame]
    /\ gateway = [c \in Callers |-> "idle"]
    /\ codec = NoCodec

Next ==
    \E c \in Callers :
        \/ WalletGenerate(c)
        \/ WalletGenerateResume(c)
        \/ \E privateKey \in HostKeys : WalletLoad(c, privateKey)
        \/ WalletLoadResume(c)
        \/ \E address \in HostAddresses : AddressValidate(c, address)
        \/ \E address \in HostAddresses : BalanceGet(c, address, Undefined)
        \/ \E resp \in HostPrimaryResponses : BalancePrimaryResponds(c, resp)
        \/ \E resp \in HostUtxoResponses : BalanceUtxosResponds(c, resp)
        \/ \E address \in HostAddresses : UtxosGet(c, address, Undefined)
        \/ \E resp \in HostUtxoResponses : UtxosResponds(c, resp)
        \/ GatewayNeverAnswers(c)
        \/ \E privateKey \in HostKeys, message \in HostMessages :
              GraffitiSend(c, privateKey, message, Null, Null, 1)
        \/ \E name \in HostNames : Greet(c, name)
        \/ WalletHdGenerate(c)
        \/ \E seed \in HostSeeds : WalletHdLoad(c, seed)
        \/ \E seed \in HostSeeds, index \in HostIndexes, isChange \in HostChangeFlags :
              DeriveAddress(c, seed, index, isChange)
        \/ \E privateKey \in HostKeys, count \in HostCounts : DeriveMany(c, privateKey, count)
        \/ NativeResponds(c)
        \/ Return(c)

Spec == Init /\ [][Next]_vars

-----------------------------------------------------------------------------
(* The gateway specification: one caller reading balances and UTXOs in     *)
(* fallback mode, against everything the gateway may answer.               *)

Reader == "c1"

GatewayInit ==
    /\ isTauri = FALSE
    /\ invoke = "null"
    /\ mockAddress = <<>>
    /\ frames = [c \in Callers |-> IdleFrame]
    /\ gateway = [c \in Callers |-> "idle"]
    /\ codec = NoCodec

GatewayNext ==
    \/ \E address \in GatewayAddresses : BalanceGet(Reader, address, Undefined)
    \/ \E resp \in PrimaryResponses : BalancePrimaryResponds(Reader, resp)
    \/ \E resp \in UtxoResponses : BalanceUtxosResponds(Reader, resp)
    \/ \E address \in GatewayAddresses : UtxosGet(Reader, address, Undefined)
    \/ \E resp \in UtxoResponses : UtxosResponds(Reader, resp)
    \/ GatewayNeverAnswers(Reader)
    \/ Return(Reader)

GatewaySpec == GatewayInit /\ [][GatewayNext]_vars

\* The scheduling the runtime guarantees: a settled promise resumes its
\* call, and the caller takes the result. Whether the gateway answers is
\* the gateway's choice (GatewayNeverAnswers); while it has not chosen
\* silence, its answer arrives.
GatewayFairness ==
    /\ WF_vars(\E resp \in PrimaryResponses : BalancePrimaryResponds(Reader, resp))
    /\ WF_vars(\E resp \in UtxoResponses : BalanceUtxosResponds(Reader, resp))
    /\ WF_vars(\E resp \in UtxoResponses : UtxosResponds(Reader, resp))
    /\ WF_vars(Return(Reader))

FairGatewaySpec == GatewaySpec /\ GatewayFairness

-----------------------------------------------------------------------------
(* The codec specification: kaspaAddressFromPublicKey on keys of every     *)
(* length up to MaxKeyLen and every network tag, and walletGenerate and    *)
(* walletLoad in fallback mode as they run when the encoder is handed such *)
(* a key.                                                                  *)

Networks == {NetMainnet, NetTestnet10, NetTestnet11, NetSimnet, NetDevnet}

\* The keys handed to the encoder: what the random source fills an array of
\* each length with.
CodecKeys ==
    {[i \in 1..n |-> (seed[1] * i + seed[2]) % 256] : n \in 0..MaxKeyLen, seed \in CodecSeeds}

CodecInit ==
    /\ isTauri = FALSE
    /\ invoke = "null"
    /\ mockAddress = <<>>
    /\ frames = [c \in Callers |-> IdleFrame]
    /\ gateway = [c \in Callers |-> "idle"]
    /\ codec \in [phase : {"input"}, publicKeyBytes : CodecKeys, network : Networks,
                  address : {Pending}]

\* kaspaAddressFromPublicKey(publicKeyBytes, network)
Encode ==
    /\ codec.phase = "input"
    /\ codec' = [codec EXCEPT !.phase = "encoded",
                              !.address = kaspaAddressFromPublicKey(codec.publicKeyBytes,
                                                                    codec.network)]
    /\ UNCHANGED <<isTauri, invoke, mockAddress, frames, gateway>>

\* walletGenerate(), up to its await, where generateKaspaAddress hands the
\* encoder the key of this specification.
WalletGenerateOnKey(c) ==
    /\ frames[c].pc = "idle"
    /\ Fallback
    /\ \E priv \in generateRandomBytes(32) :
          frames' = [frames EXCEPT ![c] =
              [Enter("walletGenerate", NoArgs) EXCEPT
                  !.pc = "generated",
                  !.local = GenerateKaspaAddressOn(priv, codec.publicKeyBytes)]]
    /\ UNCHANGED <<isTauri, invoke, mockAddress, gateway, codec>>

\* walletLoad(privateKey), up to its await, likewise.
WalletLoadOnKey(c, privateKey) ==
    /\ frames[c].pc = "idle"
    /\ Fallback
    /\ \E priv \in generateRandomBytes(32) :
          frames' = [frames EXCEPT ![c] =
              [Enter("walletLoad", [privateKey |-> privateKey]) EXCEPT
                  !.pc = "generated",
                  !.local = [cleanKey |-> CleanKey(privateKey),
                             generated |-> GenerateKaspaAddressOn(priv, codec.publicKeyBytes)]]]
    /\ UNCHANGED <<isTauri, invoke, mockAddress, gateway, codec>>

CodecNext ==
    \/ Encode
    \/ WalletGenerateOnKey(Reader)
    \/ WalletGenerateResume(Reader)
    \/ \E privateKey \in HostKeys : WalletLoadOnKey(Reader, privateKey)
    \/ WalletLoadResume(Reader)
    \/ Return(Reader)

CodecSpec == CodecInit /\ [][CodecNext]_vars

-----------------------------------------------------------------------------
(* The packing specification: conv8to5 on byte sequences of every length   *)
(* up to MaxPackLen, and on each of them with one byte changed.            *)

\* The byte sequences handed to conv8to5.
PackInputs ==
    {[i \in 1..n |-> (seed[1] * i + seed[2]) % 256] : n \in 0..MaxPackLen, seed \in CodecSeeds}

\* The bits by which one byte is changed.
ChangeMasks == {1, 128}

PackInit ==
    /\ isTauri = FALSE
    /\ invoke = "null"
    /\ mockAddress = <<>>
    /\ frames = [c \in Callers |-> IdleFrame]
    /\ gateway = [c \in Callers |-> "idle"]
    /\ codec \in [phase : {"bytes"}, data : PackInputs, groups : {<<>>},
                  other : {<<>>}, otherGroups : {<<>>}]

\* conv8to5(data)
Pack ==
    /\ codec.phase = "bytes"
    /\ codec' = [codec EXCEPT !.phase = "packed", !.groups = conv8to5(codec.data)]
    /\ UNCHANGED <<isTauri, invoke, mockAddress, frames, gateway>>

\* conv8to5 of the same data with byte i changed by mask.
PackChanged(i, mask) ==
    /\ codec.phase = "packed"
    /\ i \in 1..Len(codec.data)
    /\ LET other == [codec.data EXCEPT ![i] = BitXor(@, mask)]
       IN codec' = [codec EXCEPT !.phase = "changed", !.other = other,
                                 !.otherGroups = conv8to5(other)]
    /\ UNCHANGED <<isTauri, invoke, mockAddress, frames, gateway>>

PackNext ==
    \/ Pack
    \/ \E i \in 1..MaxPackLen, mask \in ChangeMasks : PackChanged(i, mask)

PackSpec == PackInit /\ [][PackNext]_vars

-----------------------------------------------------------------------------
(* The wallet specification: one caller in fallback mode generating and    *)
(* loading wallets, validating addresses and sending, with keys in every   *)
(* decoration and addresses around the length threshold.                   *)

\* The keys the host loads: plain, with a network prefix, with blanks
\* around, and with both.
LoadKeys ==
    {<<"a","b">>,
     <<"k","a","s","p","a",":","c","d">>,
     <<"k","a","s","p","a","t","e","s","t",":","c","d">>,
     <<"K","a","s","p","a",":","c","d">>,
     <<" ","a","b"," ">>,
     <<"k","a","s","p","a",":"," ","c","d">>,
     <<" ","k","a","s","p","a",":","c","d">>,
     <<"k","a","s","p","a",":","k","a","s","p","a",":","c","d">>,
     <<"a"," ","b">>,
     <<>>}

\* The addresses of the encoder for the all-zero payload under each HRP.
ZeroAddresses ==
    {bech32Encode(hrp, [i \in 1..33 |-> 0]) : hrp \in {HrpKaspa, HrpKaspatest, HrpKaspasim}}

\* The addresses the host validates: the encoder's, cut to 60 and to 59
\* characters, with a capital, without prefix, and short ones.
ValidateAddresses ==
    ZeroAddresses
    \cup {SubSeq(a, 1, 60) : a \in ZeroAddresses}
    \cup {SubSeq(a, 1, 59) : a \in ZeroAddresses}
    \cup {<<"K">> \o Tail(a) : a \in ZeroAddresses}
    \cup {Tail(a) : a \in ZeroAddresses}
    \cup {[i \in 1..60 |-> "q"], <<"k","a","s","p","a",":">>, <<>>}

WalletInit ==
    /\ isTauri = FALSE
    /\ invoke = "null"
    /\ mockAddress = <<>>
    /\ frames = [c \in Callers |-> IdleFrame]
    /\ gateway = [c \in Callers |-> "idle"]
    /\ codec = NoCodec

WalletNext ==
    \/ WalletGenerate(Reader)
    \/ WalletGenerateResume(Reader)
    \/ \E privateKey \in LoadKeys : WalletLoad(Reader, privateKey)
    \/ WalletLoadResume(Reader)
    \/ \E address \in ValidateAddresses : AddressValidate(Reader, address)
    \/ \E privateKey \in HostKeys, message \in HostMessages :
          GraffitiSend(Reader, privateKey, message, Null, Null, 1)
    \/ Return(Reader)

WalletSpec == WalletInit /\ [][WalletNext]_vars

-----------------------------------------------------------------------------
(* The checksum specification: the loop of bech32Polymod run one round at  *)
(* a time, first over an HRP and its separator as bech32Encode feeds them, *)
(* then over up to MaxSymbols 5-bit symbols, and the extraction of the     *)
(* checksum groups from the final value.                                   *)

\* The 5-bit symbols fed after the HRP.
PolymodSymbols == {0, 21, 31}

\* hrp5 and the separator of bech32Encode's checksumInput.
HrpSymbols(hrp) == [i \in 1..Len(hrp) |-> BitAnd(CharCode(hrp[i]), 31)] \o <<0>>

PolymodInit ==
    /\ isTauri = FALSE
    /\ invoke = "null"
    /\ mockAddress = <<>>
    /\ frames = [c \in Callers |-> IdleFrame]
    /\ gateway = [c \in Callers |-> "idle"]
    /\ \E hrp \in {HrpKaspa, HrpKaspatest, HrpKaspasim} :
          codec = [phase |-> "feeding", c |-> Big(0, 1), ahead |-> HrpSymbols(hrp), n |-> 0,
                   checksum |-> Big(0, 0), checksumBytes |-> <<>>, checksum5 |-> <<>>]

\* One round of the loop on the next symbol of the HRP.
PolymodFeedHrp ==
    /\ codec.phase = "feeding"
    /\ codec.ahead # <<>>
    /\ codec' = [codec EXCEPT !.c = PolymodStep(codec.c, Head(codec.ahead)),
                              !.ahead = Tail(codec.ahead)]
    /\ UNCHANGED <<isTauri, invoke, mockAddress, frames, gateway>>

\* One round of the loop on the symbol v.
PolymodFeed(v) ==
    /\ codec.phase = "feeding"
    /\ codec.ahead = <<>>
    /\ codec.n < MaxSymbols
    /\ codec' = [codec EXCEPT !.c = PolymodStep(codec.c, v), !.n = codec.n + 1]
    /\ UNCHANGED <<isTauri, invoke, mockAddress, frames, gateway>>

\* The loop ends: return c ^ 1n, then bech32Encode's checksumBytes and
\* conv8to5(checksumBytes.slice(3)).
PolymodFinish ==
    /\ codec.phase = "feeding"
    /\ LET checksum == PolymodFinal(codec.c)
           checksumBytes == ChecksumBytes(checksum)
       IN codec' = [codec EXCEPT !.phase = "finished", !.checksum = checksum,
                                 !.checksumBytes = checksumBytes,
                                 !.checksum5 = conv8to5(SubSeq(checksumBytes, 4, 8))]
    /\ UNCHANGED <<isTauri, invoke, mockAddress, frames, gateway>>

PolymodNext ==
    \/ PolymodFeedHrp
    \/ \E v \in PolymodSymbols : PolymodFeed(v)
    \/ PolymodFinish

PolymodSpec == PolymodInit /\ [][PolymodNext]_vars

-----------------------------------------------------------------------------
(* Vocabulary of the properties.                                           *)

\* The call of the single caller of the gateway and codec specifications.
Call == frames[Reader]

\* The request did not succeed: the fetch rejected or the status is not 2xx.
RequestFailed(resp) == resp.kind = "reject" \/ ~ResponseOk(resp)

\* The request produced nothing usable: it failed or its body is no JSON.
RequestUnusable(resp) == RequestFailed(resp) \/ resp.body.parse = "fail"

\* The request succeeded with a UTXO list in one of the documented forms.
UtxoListDelivered(resp) ==
    /\ ~RequestUnusable(resp)
    /\ resp.body.json \in UtxoBodies

\* The items of a UTXO list in a documented form: enveloped or bare.
WireItems(body) == IF body.t = "array" THEN body.a ELSE body.o.entries.a

\* The entry an item of a documented form expresses, in either naming.
WireEntry(item) ==
    IF "utxoEntry" \in DOMAIN item.o
    THEN [txid |-> item.o.outpoint.o.transactionId.s,
          index |-> item.o.outpoint.o.index.n,
          amount |-> item.o.utxoEntry.o.amount,
          script |-> item.o.utxoEntry.o.scriptPublicKey.o.scriptPublicKey.s]
    ELSE [txid |-> item.o.outpoint.o.transaction_id.s,
          index |-> item.o.outpoint.o.index.n,
          amount |-> item.o.utxo_entry.o.amount,
          script |-> item.o.utxo_entry.o.script_public_key.o.script.s]

\* The amount an entry carries, written as a number or as digits.
AmountValue(amount) == IF amount.t = "number" THEN amount.n ELSE DecimalValue(amount.s)

\* The sum of the amounts of the first n items of a documented UTXO list.
RECURSIVE SumOfAmounts(_, _)
SumOfAmounts(items, n) ==
    IF n = 0 THEN 0
    ELSE SumOfAmounts(items, n - 1) + AmountValue(WireEntry(items[n]).amount)

\* The normalized record of an entry.
NormalizedRecord(e) ==
    Obj([txid |-> Str(e.txid), vout |-> Num(e.index),
         amount |-> Num(AmountValue(e.amount)), script_pubkey |-> Str(e.script)])

\* The native backend is available.
NativeAvailable == isTauri /\ invoke # "null"

\* The invoke an operation owes the native backend: its command and its
\* arguments.
NativeInvokeOf(op, args) ==
    CASE op = "walletGenerate" -> [cmd |-> "wallet_generate", payload |-> Undefined]
      [] op = "walletLoad" -> [cmd |-> "wallet_load", payload |-> [privateKey |-> args.privateKey]]
      [] op = "addressValidate" ->
            [cmd |-> "address_validate", payload |-> [address |-> args.address]]
      [] op = "balanceGet" ->
            [cmd |-> "balance_get", payload |-> [address |-> args.address, rpcUrl |-> args.rpcUrl]]
      [] op = "utxosGet" ->
            [cmd |-> "utxos_get", payload |-> [address |-> args.address, rpcUrl |-> args.rpcUrl]]
      [] op = "graffitiSend" ->
            [cmd |-> "graffiti_send",
             payload |-> [privateKey |-> args.privateKey, message |-> args.message,
                          mimetype |-> args.mimetype, rpcUrl |-> args.rpcUrl,
                          feeRate |-> args.feeRate]]
      [] op = "greet" -> [cmd |-> "greet", payload |-> [name |-> args.name]]
      [] op = "walletHdGenerate" -> [cmd |-> "wallet_hd_generate", payload |-> Undefined]
      [] op = "walletHdLoad" -> [cmd |-> "wallet_hd_load", payload |-> [seed |-> args.seed]]
      [] op = "deriveAddress" ->
            [cmd |-> "derive_address",
             payload |-> [seed |-> args.seed, index |-> args.index, change |-> args.isChange]]
      [] op = "deriveMany" ->
            [cmd |-> "derive_many",
             payload |-> [privateKey |-> args.privateKey, count |-> args.count]]

\* The operations that receive a private key or a seed.
KeyOperations == {"walletLoad", "graffitiSend", "walletHdLoad", "deriveAddress", "deriveMany"}

\* The characters a percent-encoded path segment may hold.
SegmentChars ==
    {Lower[i] : i \in 1..Len(Lower)} \cup {UpperHex[i] : i \in 1..Len(UpperHex)}
    \cup {"%", "-", "_", ".", "!", "~", "*", "'", "(", ")"}

-----------------------------------------------------------------------------
(* The properties.                                                         *)

\* C1: in fallback mode, whenever the primary balance request does not
\* succeed (a non-success status, or the fetch rejects), balanceGet goes on to
\* request the UTXO endpoint for the same address, and if that request
\* delivers a UTXO list the balance returned is the sum of its amounts.
\* The code does so after a non-success status only: a rejected fetch goes to
\* the catch and no UTXO request is sent.
C1_UtxoFallbackOnAnyFailure ==
    (Call.op = "balanceGet" /\ Call.pc = "done" /\ Len(Call.responses) >= 1
        /\ RequestFailed(Call.responses[1]))
    => /\ Len(Call.requests) = 2
       /\ Call.requests[2] = UtxosRequest(Call.local)
       /\ (Len(Call.responses) = 2 /\ UtxoListDelivered(Call.responses[2]))
          => LET items == WireItems(Call.responses[2].body.json)
             IN Call.outcome =
                    Ok(BalanceInfo(Num(SumOfAmounts(items, Len(items))), Call.args.address))

\* C2: fallback-mode balanceGet never throws: whatever the outcomes of the
\* primary request and of the UTXO request, it resolves to a balance record
\* carrying the queried address, and when both requests fail (or the first
\* fails and no second is sent) the balance is exactly 0.
C2_BalanceNeverThrows ==
    (Call.op = "balanceGet" /\ Call.pc = "done")
    => /\ Call.outcome.t = "ok"
       /\ Call.outcome.v.t = "object"
       /\ DOMAIN Call.outcome.v.o = {"balance", "address"}
       /\ Call.outcome.v.o.address = Str(Call.args.address)
       /\ Call.outcome.v.o.balance.t \in {"number", "nan"}
       /\ (\A i \in 1..Len(Call.responses) : RequestUnusable(Call.responses[i]))
          => Call.outcome.v.o.balance = Num(0)

\* C2 witness: a balanceGet settled with balance 0 after the primary request
\* returned a non-success status and the UTXO request rejected.
C2_Witness ==
    /\ Call.op = "balanceGet" /\ Call.pc = "done"
    /\ Len(Call.responses) = 2
    /\ Call.responses[1].kind = "http" /\ ~ResponseOk(Call.responses[1])
    /\ Call.responses[2].kind = "reject"
    /\ Call.outcome = Ok(BalanceInfo(Num(0), Call.args.address))

\* C3: when balanceGet takes the UTXO path, the balance it returns is the
\* sum of the amounts of all entries of the UTXO response, for every
\* documented form: enveloped or bare, camelCase or snake_case.
\* The code sums data.entries and reads utxo_entry only: a bare array and
\* the camelCase names both give 0.
C3_BalanceSumsEveryForm ==
    (Call.op = "balanceGet" /\ Call.pc = "done" /\ Len(Call.responses) = 2
        /\ UtxoListDelivered(Call.responses[2]))
    => LET items == WireItems(Call.responses[2].body.json)
       IN Call.outcome.v.o.balance = Num(SumOfAmounts(items, Len(items)))

\* C4: for every UTXO list in a documented form, utxosGet returns, entry by
\* entry, the normalized record {txid, vout, amount, script_pubkey} carrying
\* the entry's transaction id, output index, amount and script: the same
\* record whether the entry is written in camelCase or in snake_case, in a
\* bare array or inside {entries: [...]}.
C4_SameRecordInEveryForm ==
    (Call.op = "utxosGet" /\ Call.pc = "done" /\ Len(Call.responses) = 1
        /\ UtxoListDelivered(Call.responses[1]))
    => LET items == WireItems(Call.responses[1].body.json)
       IN Call.outcome =
              Ok(Arr([i \in 1..Len(items) |-> NormalizedRecord(WireEntry(items[i]))]))

\* C4 witness: a utxosGet settled on a bare snake_case list of MaxEntries
\* entries, the last a string amount.
C4_Witness ==
    /\ Call.op = "utxosGet" /\ Call.pc = "done" /\ Len(Call.responses) = 1
    /\ UtxoListDelivered(Call.responses[1])
    /\ LET body == Call.responses[1].body.json
       IN /\ body.t = "array"
          /\ Len(body.a) = MaxEntries
          /\ "utxo_entry" \in DOMAIN body.a[1].o
          /\ body.a[MaxEntries].o.utxo_entry.o.amount.t = "string"
    /\ Call.outcome.t = "ok"
    /\ Len(Call.outcome.v.a) = MaxEntries

\* C5: fallback-mode utxosGet never throws: it resolves to an array; on a
\* transport failure or a non-success status to the empty array; on the
\* successful response {"entries": []} to the empty array, and balanceGet
\* reading that response on its UTXO path resolves to balance 0.
C5_UtxosNeverThrow ==
    /\ (Call.op = "utxosGet" /\ Call.pc = "done")
       => /\ Call.outcome.t = "ok"
          /\ Call.outcome.v.t = "array"
          /\ (\A i \in 1..Len(Call.responses) : RequestFailed(Call.responses[i]))
             => Call.outcome.v = Arr(<<>>)
          /\ (Len(Call.responses) = 1
                /\ Call.responses[1] = Http(200, Obj([entries |-> Arr(<<>>)])))
             => Call.outcome.v = Arr(<<>>)
    /\ (Call.op = "balanceGet" /\ Call.pc = "done" /\ Len(Call.responses) = 2
          /\ Call.responses[2] = Http(200, Obj([entries |-> Arr(<<>>)])))
       => Call.outcome = Ok(BalanceInfo(Num(0), Call.args.address))

\* C5 witness: a utxosGet settled with the empty array after its fetch
\* rejected.
C5_Witness ==
    /\ Call.op = "utxosGet" /\ Call.pc = "done"
    /\ Call.responses = <<Reject>>
    /\ Call.outcome = Ok(Arr(<<>>))

\* C6: every network call of fallback-mode balanceGet and utxosGet is bounded
\* by a timeout: a call waiting for the gateway eventually resolves, even if
\* the gateway never answers.
\* The code passes fetch no signal and sets no timer: once the gateway stays
\* silent the call stays pending forever.
C6_WaitIsBounded ==
    (Call.pc \in {"primary", "utxos"}) ~> (Call.pc = "done")

\* C7: backend selection never changes after module load; with the native
\* backend available every operation makes exactly one invoke with its own
\* command and arguments, settles with the backend's answer unmodified,
\* sends no gateway request, computes no local substitute and writes no
\* facade state; without it no operation ever invokes the native backend.
C7_NativeForwardedVerbatim ==
    /\ [][isTauri' = isTauri /\ invoke' = invoke]_vars
    /\ [](\A c \in Callers :
            LET f == frames[c]
            IN IF NativeAvailable
               THEN /\ mockAddress = <<>>
                    /\ f.pc \in {"idle", "native", "done"}
                    /\ f.pc # "idle"
                       => /\ f.invokes = <<NativeInvokeOf(f.op, f.args)>>
                          /\ f.requests = <<>>
                          /\ f.local = Undefined
                          /\ ~f.wrote
                    /\ f.pc = "native" => f.responses = <<>>
                    /\ f.pc = "done"
                       => /\ Len(f.responses) = 1
                          /\ f.responses[1].kind = "native"
                          /\ f.outcome = f.responses[1].answer
               ELSE f.invokes = <<>>)

\* C7 witness: with the native backend available, a graffitiSend settled
\* with the backend's failure while the other caller's walletGenerate waits
\* for the backend.
C7_Witness ==
    /\ NativeAvailable
    /\ frames["c1"].op = "graffitiSend" /\ frames["c1"].pc = "done"
    /\ frames["c1"].outcome.t = "throw"
    /\ Len(frames["c1"].invokes) = 1
    /\ frames["c2"].op = "walletGenerate" /\ frames["c2"].pc = "native"

\* C8: facade calls are independent: no operation writes process-wide state,
\* and the result of a fallback graffitiSend is what the call gives on its own
\* arguments and random draw, whatever calls completed before it.
\* The code keeps the address of the last walletGenerate or walletLoad in
\* mockAddress and graffitiSend returns it.
C8_CallsIndependent ==
    /\ mockAddress = <<>>
    /\ \A c \in Callers :
          (frames[c].op = "graffitiSend" /\ frames[c].pc = "done" /\ ~NativeAvailable)
          => \E hex \in generateRandomHex(16) :
                frames[c].outcome =
                    Ok(Obj([txid |-> Str(TxtMock \o hex), fee |-> Num(1000),
                            change |-> Num(99000), address |-> Str(<<>>)]))

\* C9: private key material never crosses the network-fallback boundary:
\* every request sent to the gateway is a GET without body to the gateway's
\* base, sent by balanceGet or utxosGet, whose path holds nothing of the
\* caller but the percent-encoded address; an operation that receives a
\* private key or a seed sends no request.
C9_NoKeyOnTheNetwork ==
    \A c \in Callers :
        LET f == frames[c]
        IN /\ f.op \in KeyOperations => f.requests = <<>>
           /\ \A i \in 1..Len(f.requests) :
                 LET r == f.requests[i]
                     encodedAddress == encodeURIComponent(f.args.address)
                 IN /\ ~NativeAvailable
                    /\ f.op \in {"balanceGet", "utxosGet"}
                    /\ r.method = "GET"
                    /\ r.body = Undefined
                    /\ r.base = PUBLIC_API
                    /\ encodedAddress.t = "ok"
                    /\ \A k \in 1..Len(encodedAddress.v) : encodedAddress.v[k] \in SegmentChars
                    /\ r.path \in {PathAddresses \o encodedAddress.v \o PathBalance,
                                   PathAddresses \o encodedAddress.v \o PathUtxos}

\* C9 witness: a balanceGet for an address with reserved characters has sent
\* both of its requests while a walletLoad of the other caller has settled
\* without any.
C9_Witness ==
    /\ ~NativeAvailable
    /\ frames["c1"].op = "balanceGet"
    /\ Len(frames["c1"].requests) = 2
    /\ \E k \in 1..Len(frames["c1"].args.address) : frames["c1"].args.address[k] = "/"
    /\ frames["c2"].op = "walletLoad" /\ frames["c2"].pc = "done"
    /\ frames["c2"].requests = <<>>

\* C10: kaspaAddressFromPublicKey fails with the invalid-length error exactly
\* when its key is not 33 bytes long and then produces no address; for every
\* 33-byte key it succeeds; the failure reaches the caller of walletGenerate
\* and walletLoad, which then leave mockAddress alone.
C10_EncoderLength ==
    LET key == codec.publicKeyBytes
        refused == Throw(InvalidLength(IF Len(key) = 0 THEN 0 ELSE Len(key) - 1))
    IN /\ codec.phase = "encoded"
          => IF Len(key) = 33
             THEN /\ codec.address.t = "ok"
                  /\ StartsWith(codec.address.v, HrpOf(codec.network) \o <<":">>)
             ELSE codec.address = refused
       /\ (Call.op \in {"walletGenerate", "walletLoad"} /\ Call.pc = "done")
          => IF Len(key) = 33
             THEN Call.outcome.t = "ok" /\ Call.wrote
             ELSE Call.outcome = refused /\ ~Call.wrote /\ mockAddress = <<>>

\* C10 witness: a 32-byte key was refused by the encoder and a walletLoad
\* run on it has settled with that failure.
C10_Witness ==
    /\ Len(codec.publicKeyBytes) = 32
    /\ codec.phase = "encoded"
    /\ codec.address.t = "throw"
    /\ Call.op = "walletLoad" /\ Call.pc = "done"
    /\ Call.outcome.t = "throw"

-----------------------------------------------------------------------------
(* Vocabulary of the codec properties: bits and groups, stated on their    *)
(* own.                                                                    *)

\* The address alphabet.
Alphabet == <<"q","p","z","r","y","9","x","8","g","f","2","t","v","d","w","0",
              "s","3","j","n","5","4","k","h","c","e","6","m","u","a","7","l">>

\* Bit j (from 0, most significant first) of a byte sequence; 0 past its end.
BitAt(data, j) ==
    IF j >= 8 * Len(data) THEN 0
    ELSE (data[(j \div 8) + 1] \div Pow2(7 - (j % 8))) % 2

\* The k-th (from 1) group of five bits of a byte sequence padded with zeros.
GroupOfBits(data, k) ==
    16 * BitAt(data, 5 * k - 5) + 8 * BitAt(data, 5 * k - 4) + 4 * BitAt(data, 5 * k - 3)
    + 2 * BitAt(data, 5 * k - 2) + BitAt(data, 5 * k - 1)

\* The number of five-bit groups n bytes fill: ceil(8n / 5).
GroupCount(n) == (8 * n + 4) \div 5

\* The HRP of a network tag.
HrpOfTag(network) ==
    CASE network = NetMainnet -> HrpKaspa
      [] network \in {NetTestnet10, NetTestnet11} -> HrpKaspatest
      [] OTHER -> HrpKaspasim

\* The payload of the key the codec specification encodes: the version byte
\* 0 and the key without its first byte.
CodecPayload == <<0>> \o SliceFrom1(codec.publicKeyBytes)

\* The codec specification has encoded a 33-byte key.
Encoded == codec.phase = "encoded" /\ Len(codec.publicKeyBytes) = 33

-----------------------------------------------------------------------------
(* The codec properties.                                                   *)

\* C11: for every 33-byte payload and every network tag the address is
\* HRP, ':', 53 payload symbols and 8 checksum symbols, each symbol the
\* alphabet's character at the index of its 5-bit group, with HRP kaspa for
\* mainnet, kaspatest for a testnet tag and kaspasim otherwise; the
\* testnet-10 address of the all-zero payload starts with kaspatest: and is
\* longer than 60 characters.
C11_AddressLayout ==
    Encoded
    => LET hrp == HrpOfTag(codec.network)
           a == codec.address.v
           at == Len(hrp) + 1
       IN /\ codec.address.t = "ok"
          /\ Len(a) = at + 53 + 8
          /\ SubSeq(a, 1, at) = hrp \o <<":">>
          /\ \A k \in 1..53 : a[at + k] = Alphabet[GroupOfBits(CodecPayload, k) + 1]
          /\ \A k \in 54..61 : \E g \in 1..32 : a[at + k] = Alphabet[g]
          /\ (codec.network = NetTestnet10 /\ \A i \in 1..33 : CodecPayload[i] = 0)
             => /\ SubSeq(a, 1, 10) = <<"k","a","s","p","a","t","e","s","t",":">>
                /\ Len(a) > 60

\* C11 witness: a 33-byte key with bytes that are not zero, encoded for
\* testnet-11.
C11_Witness ==
    /\ Encoded
    /\ codec.network = NetTestnet11
    /\ codec.publicKeyBytes[33] # 0
    /\ codec.address.t = "ok"

\* The HRP of an address: what stands before its ':'.
HrpPart(a) == SubSeq(a, 1, IndexIn(a, ":") - 1)

\* The 5-bit groups of an address: the alphabet indexes of the symbols after
\* its ':'.
GroupsPart(a) ==
    LET at == IndexIn(a, ":")
    IN [k \in 1..(Len(a) - at) |-> IndexIn(Alphabet, a[at + k]) - 1]

\* The eight 5-bit groups of a 40-bit value held in two 20-bit limbs, most
\* significant first.
GroupsOf40(c) ==
    [k \in 1..8 |-> IF k <= 4 THEN (c.hi \div Pow2(5 * (4 - k))) % 32
                    ELSE (c.lo \div Pow2(5 * (8 - k))) % 32]

\* The checksum groups recomputed over an HRP and payload groups: the HRP's
\* characters masked to five bits, a 0, the payload groups, eight 0 groups.
RecomputedChecksum(hrp, payloadGroups) ==
    GroupsOf40(bech32Polymod([i \in 1..Len(hrp) |-> BitAnd(CharCode(hrp[i]), 31)]
                             \o <<0>> \o payloadGroups \o <<0, 0, 0, 0, 0, 0, 0, 0>>))

\* The last eight elements of a sequence.
Last8(q) == SubSeq(q, Len(q) - 7, Len(q))

\* C12: checksum self-consistency: an address produced by the encoder, split
\* at ':' into HRP and symbols and mapped back to 5-bit groups, carries as
\* its last 8 groups exactly the checksum recomputed over the HRP and the
\* groups before them.
C12_ChecksumSelfConsistent ==
    Encoded
    => LET a == codec.address.v
           groups == GroupsPart(a)
       IN /\ codec.address.t = "ok"
          /\ Len(groups) > 8
          /\ \A k \in 1..Len(groups) : groups[k] \in 0..31
          /\ RecomputedChecksum(HrpPart(a), SubSeq(groups, 1, Len(groups) - 8)) = Last8(groups)

\* C12 witness: a mainnet address whose checksum groups are not all equal.
C12_Witness ==
    /\ Encoded
    /\ codec.network = NetMainnet
    /\ codec.address.t = "ok"
    /\ \E k \in 1..7 : Last8(GroupsPart(codec.address.v))[k] # Last8(GroupsPart(codec.address.v))[8]

\* The three HRPs.
Hrps == {HrpKaspa, HrpKaspatest, HrpKaspasim}

\* C13: network binding: the 8 checksum symbols of the addresses of one
\* payload under two distinct HRPs differ, so an address body moved under
\* another network's prefix does not carry a matching checksum.
C13_ChecksumBoundToHrp ==
    Encoded
    => /\ codec.address.t = "ok"
       /\ \A hrp \in Hrps \ {HrpPart(codec.address.v)} :
             Last8(bech32Encode(hrp, CodecPayload)) # Last8(codec.address.v)

\* C13 witness: a kaspasim address of a payload that is not all zero.
C13_Witness ==
    /\ Encoded
    /\ codec.address.t = "ok"
    /\ HrpPart(codec.address.v) = HrpKaspasim
    /\ \E i \in 1..33 : CodecPayload[i] # 0

\* Bit j (from 0, most significant first) of a sequence of 5-bit groups.
GroupBit(groups, j) == (groups[(j \div 5) + 1] \div Pow2(4 - (j % 5))) % 2

\* The n bytes a sequence of 5-bit groups unpacks to.
Unpack5to8(groups, n) ==
    [i \in 1..n |->
        128 * GroupBit(groups, 8 * i - 8) + 64 * GroupBit(groups, 8 * i - 7)
        + 32 * GroupBit(groups, 8 * i - 6) + 16 * GroupBit(groups, 8 * i - 5)
        + 8 * GroupBit(groups, 8 * i - 4) + 4 * GroupBit(groups, 8 * i - 3)
        + 2 * GroupBit(groups, 8 * i - 2) + GroupBit(groups, 8 * i - 1)]

\* C14: bit-width round trip: conv8to5 of n bytes returns ceil(8n/5) groups
\* in 0..31 whose bits are the 8n input bits followed by zero padding only,
\* so unpacking recovers the input and an input with one byte changed packs
\* to different groups; the empty input packs to the empty output.
C14_PackRoundTrip ==
    /\ codec.phase = "packed"
       => LET n == Len(codec.data)
              groups == codec.groups
          IN /\ Len(groups) = GroupCount(n)
             /\ \A k \in 1..Len(groups) : groups[k] \in 0..31
             /\ \A j \in 0..(5 * Len(groups) - 1) : GroupBit(groups, j) = BitAt(codec.data, j)
             /\ Unpack5to8(groups, n) = codec.data
             /\ n = 0 => groups = <<>>
    /\ codec.phase = "changed"
       => /\ codec.otherGroups # codec.groups
          /\ Len(codec.otherGroups) = Len(codec.groups)

\* C14 witness: a sequence of MaxPackLen bytes whose bits do not fill the
\* last group, packed, and packed again with its last byte changed.
C14_Witness ==
    /\ codec.phase = "changed"
    /\ Len(codec.data) = MaxPackLen
    /\ (8 * Len(codec.data)) % 5 # 0
    /\ codec.other[MaxPackLen] # codec.data[MaxPackLen]
    /\ Len(codec.groups) = GroupCount(MaxPackLen)

-----------------------------------------------------------------------------
(* The wallet properties.                                                  *)

\* The network prefixes a key may be decorated with.
KeyDecorations == {<<"k","a","s","p","a",":">>, <<"k","a","s","p","a","t","e","s","t",":">>}

\* t is a run of consecutive characters of s.
IsPartOf(t, s) ==
    \E i \in 1..(Len(s) + 1) : \E j \in (i - 1)..Len(s) : SubSeq(s, i, j) = t

\* C15: fallback-mode walletLoad returns as private_key the supplied key with
\* any network prefix stripped and whitespace trimmed: it never begins with a
\* network prefix, never has a blank at either end, and otherwise keeps the
\* characters of the input.
\* The code strips the prefix before it trims: a key with a blank before its
\* prefix keeps the prefix.
C15_LoadedKeyIsBare ==
    (Call.op = "walletLoad" /\ Call.pc = "done" /\ ~NativeAvailable)
    => /\ Call.outcome.t = "ok"
       /\ LET key == Call.outcome.v.o.private_key.s
          IN /\ \A p \in KeyDecorations : ~StartsWith(key, p)
             /\ key # <<>> => (key[1] # " " /\ key[Len(key)] # " ")
             /\ IsPartOf(key, Call.args.privateKey)

\* C16: fallback-mode walletLoad reports that its public key and address are
\* not derived from the supplied key: its outcome is a failure or a record
\* with a marker, never the ordinary wallet record.
\* The code returns the same four fields as walletGenerate.
C16_LoadLimitationSurfaced ==
    (Call.op = "walletLoad" /\ Call.pc = "done" /\ ~NativeAvailable)
    => \/ Call.outcome.t = "throw"
       \/ DOMAIN Call.outcome.v.o # {"private_key", "public_key", "address", "network"}

\* The hexadecimal digits.
HexDigits == {"0","1","2","3","4","5","6","7","8","9","a","b","c","d","e","f"}

\* C17: fallback-mode graffitiSend sends no request and makes no native
\* call, never waits, and every result is marked synthetic: the txid is
\* mock_ followed by 16 hexadecimal characters, fee 1000 and change 99000.
C17_SendIsSynthetic ==
    \A c \in Callers :
        (frames[c].op = "graffitiSend" /\ ~NativeAvailable)
        => /\ frames[c].pc = "done"
           /\ frames[c].requests = <<>>
           /\ frames[c].invokes = <<>>
           /\ frames[c].outcome.t = "ok"
           /\ LET r == frames[c].outcome.v.o
              IN /\ r.txid.t = "string"
                 /\ Len(r.txid.s) = 21
                 /\ SubSeq(r.txid.s, 1, 5) = <<"m","o","c","k","_">>
                 /\ \A k \in 6..21 : r.txid.s[k] \in HexDigits
                 /\ r.fee = Num(1000)
                 /\ r.change = Num(99000)

\* C17 witness: in fallback mode both callers hold a settled send, with
\* different transaction ids.
C17_Witness ==
    /\ ~NativeAvailable
    /\ \A c \in Callers : frames[c].op = "graffitiSend" /\ frames[c].pc = "done"
    /\ frames["c1"].outcome.v.o.txid # frames["c2"].outcome.v.o.txid

\* The prefixes of the recognized networks.
RecognizedPrefixes ==
    {<<"k","a","s","p","a",":">>, <<"k","a","s","p","a","t","e","s","t",":">>,
     <<"k","a","s","p","a","s","i","m",":">>}

\* C18: fallback-mode addressValidate returns true exactly when the address
\* begins with the HRP of a recognized network (kaspa, kaspatest, kaspasim)
\* and ':' and has at least 60 characters; it has no side effect.
\* The code recognizes kaspa: and kaspatest: only.
C18_ValidateRecognizedNetworks ==
    (Call.op = "addressValidate" /\ Call.pc = "done" /\ ~NativeAvailable)
    => /\ Call.outcome =
             Ok(Bool(/\ \E p \in RecognizedPrefixes : StartsWith(Call.args.address, p)
                     /\ Len(Call.args.address) >= 60))
       /\ Call.requests = <<>>
       /\ Call.invokes = <<>>
       /\ ~Call.wrote

-----------------------------------------------------------------------------
(* More gateway properties.                                                *)

\* C19: a successful gateway response to utxosGet that is in neither known
\* shape (no array and no entries array, entries that are no sequence, or
\* items with neither the camelCase nor the snake_case fields) resolves to
\* the empty array: nothing is thrown and no record is made up.
\* The code maps every item that is an object to a record, filling the
\* fields it does not find with '' and 0.
C19_MalformedIsEmpty ==
    (Call.op = "utxosGet" /\ Call.pc = "done" /\ Len(Call.responses) = 1
        /\ ~RequestUnusable(Call.responses[1])
        /\ Call.responses[1].body.json \in MalformedBodies)
    => Call.outcome = Ok(Arr(<<>>))

-----------------------------------------------------------------------------
(* The checksum property.                                                  *)

\* A value held in two limbs is below 2^40.
Below40(c) == c.hi \in 0..(Pow2(20) - 1) /\ c.lo \in 0..(Pow2(20) - 1)

\* C20: the polymod accumulator stays below 2^40 after every round and so
\* does the final value, so the three most significant bytes of its 8-byte
\* form are zero and the other five repack into exactly 8 groups, the eight
\* 5-bit groups of the value, with no padding bit.
C20_AccumulatorFits40Bits ==
    /\ codec.phase \in {"feeding", "finished"} => Below40(codec.c)
    /\ codec.phase = "finished"
       => /\ Below40(codec.checksum)
          /\ Len(codec.checksumBytes) = 8
          /\ \A j \in 1..3 : codec.checksumBytes[j] = 0
          /\ \A j \in 4..8 : codec.checksumBytes[j] \in 0..255
          /\ Len(codec.checksum5) = 8
          /\ 5 * Len(codec.checksum5) = 8 * 5
          /\ codec.checksum5 = GroupsOf40(codec.checksum)

\* C20 witness: a final value with its highest bit set, after MaxSymbols
\* symbols fed in rounds that folded generators in.
C20_Witness ==
    /\ codec.phase = "finished"
    /\ codec.n = MaxSymbols
    /\ codec.checksum.hi >= Pow2(19)

-----------------------------------------------------------------------------
(* The wallet record property.                                             *)

\* The value of a hexadecimal digit.
HexValue(ch) == IndexIn(HexChars, ch) - 1

\* The bytes a string of hexadecimal digit pairs stands for.
FromHex(s) == [i \in 1..(Len(s) \div 2) |-> 16 * HexValue(s[2 * i - 1]) + HexValue(s[2 * i])]

\* The record a finished fallback walletGenerate or walletLoad returned.
WalletReturned ==
    /\ Call.op \in {"walletGenerate", "walletLoad"}
    /\ Call.pc = "done"
    /\ Call.outcome.t = "ok"

\* C21: every wallet record returned by fallback walletGenerate or walletLoad
\* is consistent: network is 'testnet-10', public_key is 33 bytes in hex
\* starting with 02, address is the encoder's output for HRP 'kaspatest' over
\* 0x00 followed by the last 32 bytes of that public key, and fallback
\* addressValidate accepts that address.
C21_WalletRecordConsistent ==
    (Fallback /\ WalletReturned)
    => LET record == Call.outcome.v.o
           publicKey == record.public_key.s
           address == record.address.s
       IN /\ record.network = Str(NetTestnet10)
          /\ Len(publicKey) = 66
          /\ \A i \in 1..66 : publicKey[i] \in HexDigits
          /\ SubSeq(publicKey, 1, 2) = <<"0", "2">>
          /\ address = bech32Encode(HrpKaspatest,
                                    <<0>> \o SubSeq(FromHex(publicKey), 2, 33))
          /\ ValidAddress(address)

\* C21 witness: walletLoad has returned a record whose public key is not the
\* all-zero draw.
C21_Witness ==
    /\ Fallback
    /\ WalletReturned
    /\ Call.op = "walletLoad"
    /\ \E i \in 3..66 : Call.outcome.v.o.public_key.s[i] # "0"

=============================================================================
